---- MODULE Spec2Model ----
(***************************************************************************)
(* Model of the modbus crate's type model (src/modbus/src/lib.rs): the     *)
(* Function catalog and its wire codes, the ExceptionCode enumeration and  *)
(* its numeric conversion, the Error type with its Display, description    *)
(* and cause, the Coil type with its conversions, and the exported add.    *)
(*                                                                         *)
(* The crate holds no state of its own.  The state of the model is the     *)
(* state of a caller: the last operation it called, the argument it        *)
(* passed, what came back, and the call before that when the argument was  *)
(* the value that call returned (or the value that call borrowed).         *)
(***************************************************************************)
EXTENDS Integers, Sequences, FiniteSets, TLC

VARIABLES op, arg, result, prev, orig, flips

vars == <<op, arg, result, prev, orig, flips>>

(***************************************************************************)
(* Bounds of the model.                                                    *)
(***************************************************************************)
\* Address, Quantity and Value (u16) range over 0..MaxWord.
MaxWord == 1
\* Payload slices (&[u8]) have at most MaxPayload bytes.
MaxPayload == 1
\* Strings handed to Coil::from_str have at most MaxLen characters.
MaxLen == 3
\* io::Error values are told apart by an identity in 1..MaxIoId.
MaxIoId == 2
\* usize is modelled as WordBits bits wide.
WordBits == 3

(***************************************************************************)
(* Outcomes of a call.                                                     *)
(***************************************************************************)
Ok(v) == [tag |-> "Ok", val |-> v]
Err(e) == [tag |-> "Err", val |-> e]
Some(v) == [tag |-> "Some", val |-> v]
None == [tag |-> "None"]
Panic == [tag |-> "Panic"]

NoCall == [op |-> "none"]

(***************************************************************************)
(* type Address = u16; type Quantity = u16; type Value = u16;              *)
(***************************************************************************)
Words == 0..MaxWord

PayloadBytes == {0, 255}

RECURSIVE SeqsOfLen(_, _)
SeqsOfLen(S, n) ==
    IF n = 0 THEN {<<>>}
    ELSE {Append(s, x) : s \in SeqsOfLen(S, n - 1), x \in S}

Payloads == UNION {SeqsOfLen(PayloadBytes, n) : n \in 0..MaxPayload}

(***************************************************************************)
(* enum Function<'a>                                                       *)
(***************************************************************************)
Functions ==
    [variant : {"ReadCoils", "ReadDiscreteInputs", "ReadHoldingRegisters",
                "ReadInputRegisters"},
     address : Words, quantity : Words]
    \cup
    [variant : {"WriteSingleCoil", "WriteSingleRegister"},
     address : Words, value : Words]
    \cup
    [variant : {"WriteMultipleCoils", "WriteMultipleRegisters"},
     address : Words, quantity : Words, payload : Payloads]
    \cup
    [variant : {"WriteReadMultipleRegisters"},
     address : Words, quantity : Words, payload : Payloads,
     read_address : Words, read_quantity : Words]

\* Faulty variant: WriteReadMultipleRegisters given 0x16 (MaskWriteRegister).
Function_code_0x16(f) ==
    CASE f.variant = "ReadCoils" -> 1
      [] f.variant = "ReadDiscreteInputs" -> 2
      [] f.variant = "ReadHoldingRegisters" -> 3
      [] f.variant = "ReadInputRegisters" -> 4
      [] f.variant = "WriteSingleCoil" -> 5
      [] f.variant = "WriteSingleRegister" -> 6
      [] f.variant = "WriteMultipleCoils" -> 15
      [] f.variant = "WriteMultipleRegisters" -> 16
      [] f.variant = "WriteReadMultipleRegisters" -> 22

\* Function::code: a match on the variant, every field bound to _.
Function_code(f) ==
    CASE f.variant = "ReadCoils" -> 1
      [] f.variant = "ReadDiscreteInputs" -> 2
      [] f.variant = "ReadHoldingRegisters" -> 3
      [] f.variant = "ReadInputRegisters" -> 4
      [] f.variant = "WriteSingleCoil" -> 5
      [] f.variant = "WriteSingleRegister" -> 6
      [] f.variant = "WriteMultipleCoils" -> 15
      [] f.variant = "WriteMultipleRegisters" -> 16
      [] f.variant = "WriteReadMultipleRegisters" -> 23

(***************************************************************************)
(* enum ExceptionCode, in declaration order, with its discriminants.       *)
(***************************************************************************)
ExceptionCodeDecl ==
    << [name |-> "IllegalFunction", value |-> 1],
       [name |-> "IllegalDataAddress", value |-> 2],
       [name |-> "IllegalDataValue", value |-> 3],
       [name |-> "SlaveOrServerFailure", value |-> 4],
       [name |-> "Acknowledge", value |-> 5],
       [name |-> "SlaveOrServerBusy", value |-> 6],
       [name |-> "NegativeAcknowledge", value |-> 7],
       [name |-> "MemoryParity", value |-> 8],
       [name |-> "NotDefined", value |-> 9],
       [name |-> "GatewayPath", value |-> 10],
       [name |-> "GatewayTarget", value |-> 11] >>

ExceptionCodes == {ExceptionCodeDecl[i].name : i \in DOMAIN ExceptionCodeDecl}

Bytes == 0..255

\* `c as u8`: the discriminant of the variant.
ExceptionCode_to_code(c) ==
    LET i == CHOOSE j \in DOMAIN ExceptionCodeDecl : ExceptionCodeDecl[j].name = c
    IN ExceptionCodeDecl[i].value

\* enum_from_primitive!: from_u8(n) compares n with each variant's
\* discriminant in declaration order and gives None when none matches.
RECURSIVE FromPrimitiveAt(_, _)
FromPrimitiveAt(n, i) ==
    IF i > Len(ExceptionCodeDecl) THEN None
    ELSE IF n = ExceptionCodeDecl[i].value THEN Some(ExceptionCodeDecl[i].name)
    ELSE FromPrimitiveAt(n, i + 1)

\* Faulty variant: an unknown byte falls back to NotDefined.
ExceptionCode_from_u8_or_default(n) ==
    IF FromPrimitiveAt(n, 1) = None THEN Some("NotDefined")
    ELSE FromPrimitiveAt(n, 1)

ExceptionCode_from_u8(n) == FromPrimitiveAt(n, 1)

\* #[derive(Debug)] on a field-less variant writes the variant's name.
ExceptionCode_debug(c) == c

(***************************************************************************)
(* enum Reason                                                             *)
(***************************************************************************)
CustomTexts == {"", "crc", "a\"b"}

Reasons ==
    [name : {"UnexpectedReplySize", "BytecountNotEven", "SendBufferEmpty",
             "RecvBufferEmpty", "SendBufferTooBig", "DecodingError",
             "EncodingError", "InvalidByteorder"}]
    \cup [name : {"Custom"}, text : CustomTexts]

\* <str as Debug>::fmt: the text between double quotes, with " and \ escaped.
RECURSIVE str_escape_debug(_)
str_escape_debug(s) ==
    IF Len(s) = 0 THEN ""
    ELSE LET c == SubSeq(s, 1, 1)
             rest == str_escape_debug(SubSeq(s, 2, Len(s)))
         IN IF c = "\"" \/ c = "\\" THEN "\\" \o c \o rest ELSE c \o rest

str_debug(s) == "\"" \o str_escape_debug(s) \o "\""

\* #[derive(Debug)] on Reason: the variant's name, and Custom("text").
Reason_debug(r) ==
    IF r.name = "Custom" THEN "Custom(" \o str_debug(r.text) \o ")"
    ELSE r.name

(***************************************************************************)
(* io::Error: an opaque failure of the transport, with its own message.    *)
(***************************************************************************)
IoMessages == {"timed out", "broken pipe"}

IoErrors == [id : 1..MaxIoId, msg : IoMessages]

io_Error_display(e) == e.msg

(***************************************************************************)
(* enum Error                                                              *)
(***************************************************************************)
UnitKinds == {"InvalidResponse", "InvalidFunction", "ParseCoilError",
              "ParseInfoError"}

ErrorKinds == {"Exception", "Io", "InvalidData"} \cup UnitKinds

Errors ==
    [kind : {"Exception"}, code : ExceptionCodes]
    \cup [kind : {"Io"}, err : IoErrors]
    \cup [kind : {"InvalidData"}, reason : Reasons]
    \cup [kind : UnitKinds]

\* Faulty variant: a wildcard arm after the first two.
Error_description_wildcard(e) ==
    CASE e.kind = "Exception" -> "Modbus exception"
      [] e.kind = "Io" -> "I/O error"
      [] OTHER -> "Invalid data"

\* impl std::error::Error for Error: description
Error_description(e) ==
    CASE e.kind = "Exception" -> "Modbus exception"
      [] e.kind = "Io" -> "I/O error"
      [] e.kind = "InvalidResponse" -> "Invalid response"
      [] e.kind = "InvalidData" -> "Invalid data"
      [] e.kind = "InvalidFunction" -> "Invalid modbus function"
      [] e.kind = "ParseCoilError" -> "Parse coil could not be parsed"
      [] e.kind = "ParseInfoError" -> "Failed parsing device info as utf8"

\* Faulty variant: Display delegates to description().
Error_fmt_as_description(e) == Error_description(e)

\* impl fmt::Display for Error
Error_fmt(e) ==
    CASE e.kind = "Exception" ->
             "Modbus exception: " \o ExceptionCode_debug(e.code)
      [] e.kind = "Io" -> "I/O error: " \o io_Error_display(e.err)
      [] e.kind = "InvalidResponse" -> "Invalid response"
      [] e.kind = "InvalidData" -> "Invalid data: " \o Reason_debug(e.reason)
      [] e.kind = "InvalidFunction" -> "Invalid modbus function"
      [] e.kind = "ParseCoilError" -> "Parse coil could not be parsed"
      [] e.kind = "ParseInfoError" -> "Failed parsing device info as utf8"

\* Faulty variant: the default cause() of std::error::Error.
Error_cause_default(e) == None

\* impl std::error::Error for Error: cause
Error_cause(e) ==
    IF e.kind = "Io" THEN Some(e.err) ELSE None

\* impl From<ExceptionCode> for Error
Error_from_ExceptionCode(err) == [kind |-> "Exception", code |-> err]

\* impl From<io::Error> for Error
Error_from_io_Error(err) == [kind |-> "Io", err |-> err]

(***************************************************************************)
(* enum Coil                                                               *)
(***************************************************************************)
Coils == {"On", "Off"}

\* Faulty variant: On as 0x00ff.
Coil_code_low_byte(self) ==
    CASE self = "On" -> 255
      [] self = "Off" -> 0

\* Coil::code
Coil_code(self) ==
    CASE self = "On" -> 65280
      [] self = "Off" -> 0

\* Faulty variant: the case of the text is ignored.
Coil_from_str_any_case(s) ==
    IF s \in {"On", "on", "ON"} THEN Ok("On")
    ELSE IF s \in {"Off", "off", "OFF"} THEN Ok("Off")
    ELSE Err([kind |-> "ParseCoilError"])

\* Faulty variant: the text is sliced before its length is known.
Coil_from_str_sliced(s) ==
    IF Len(s) < 2 THEN Panic
    ELSE IF SubSeq(s, 1, 2) = "On" /\ Len(s) = 2 THEN Ok("On")
    ELSE IF s = "Off" THEN Ok("Off")
    ELSE Err([kind |-> "ParseCoilError"])

\* impl FromStr for Coil
Coil_from_str(s) ==
    IF s = "On" THEN Ok("On")
    ELSE IF s = "Off" THEN Ok("Off")
    ELSE Err([kind |-> "ParseCoilError"])

\* impl From<bool> for Coil
Coil_from_bool(b) == IF b THEN "On" ELSE "Off"

\* Faulty variant: both arms give Off.
Coil_not_stuck_off(self) ==
    CASE self = "On" -> "Off"
      [] self = "Off" -> "Off"

\* impl std::ops::Not for Coil
Coil_not(self) ==
    CASE self = "On" -> "Off"
      [] self = "Off" -> "On"

\* The strings a caller may hand to Coil::from_str.
Alphabet == {"O", "n", "f", "o", "N", " "}

RECURSIVE StringsOfLen(_)
StringsOfLen(n) ==
    IF n = 0 THEN {""}
    ELSE {s \o c : s \in StringsOfLen(n - 1), c \in Alphabet}

Strings == UNION {StringsOfLen(n) : n \in 0..MaxLen}

(***************************************************************************)
(* pub extern fn add(left: usize, right: usize) -> usize                   *)
(***************************************************************************)
UsizeModulus == 2 ^ WordBits

Usizes == 0..(UsizeModulus - 1)

\* Faulty variant: the overflow test is off by one.
add_off_by_one(left, right) ==
    IF left + right <= UsizeModulus THEN {Ok(left + right)}
    ELSE {Panic, Ok((left + right) % UsizeModulus)}

\* left + right on usize, as the set of outcomes the builds of the crate
\* produce: on overflow the build with overflow checks panics and the build
\* without them wraps.
add(left, right) ==
    IF left + right < UsizeModulus THEN {Ok(left + right)}
    ELSE {Panic, Ok((left + right) % UsizeModulus)}

(***************************************************************************)
(* The caller.                                                             *)
(***************************************************************************)
ThisCall == [op |-> op, arg |-> arg, result |-> result]

\* The caller holds a Coil: the one just returned, or the one whose code it
\* just took (Coil is Copy).
CoilProducers == {"Coil::from", "Coil::from_str", "Coil::not"}

HasCoil ==
    \/ op \in CoilProducers /\ result.tag = "Ok"
    \/ op = "Coil::code"

HeldCoil == IF op = "Coil::code" THEN arg ELSE result.val

\* The caller holds an Error: the one just built, or the one a method just
\* borrowed (fmt, description and cause take &self).
ErrorBuilders == {"Error::from(ExceptionCode)", "Error::from(io::Error)",
                  "Error::variant"}

ErrorMethods == {"Error::fmt", "Error::description", "Error::cause"}

HasError ==
    \/ op \in ErrorBuilders
    \/ op \in ErrorMethods

HeldError == IF op \in ErrorMethods THEN arg ELSE result.val

\* orig is the Coil a chain of negations started from and the conversion that
\* made it; flips is the number of negations since, modulo 2.
NoOrigin == [by |-> "none"]

NoCoil == /\ orig' = NoOrigin
          /\ flips' = 0

Init ==
    /\ op = "none"
    /\ arg = "none"
    /\ result = [tag |-> "none"]
    /\ prev = NoCall
    /\ orig = NoOrigin
    /\ flips = 0

\* f.code() for a Function the caller builds.
CallFunctionCode ==
    \E f \in Functions :
        /\ op' = "Function::code"
        /\ arg' = f
        /\ result' = Ok(Function_code(f))
        /\ prev' = NoCall
        /\ NoCoil

\* ExceptionCode::from_u8(n) for a byte read from the wire.
CallFromU8 ==
    \E n \in Bytes :
        /\ op' = "ExceptionCode::from_u8"
        /\ arg' = n
        /\ result' = ExceptionCode_from_u8(n)
        /\ prev' = NoCall
        /\ NoCoil

\* c as u8 for an ExceptionCode.
CallToCode ==
    \E c \in ExceptionCodes :
        /\ op' = "ExceptionCode as u8"
        /\ arg' = c
        /\ result' = Ok(ExceptionCode_to_code(c))
        /\ prev' = NoCall
        /\ NoCoil

\* ExceptionCode::from_u8(c as u8): the byte just produced is converted back.
CallFromU8OfCode ==
    /\ op = "ExceptionCode as u8"
    /\ op' = "ExceptionCode::from_u8"
    /\ arg' = result.val
    /\ result' = ExceptionCode_from_u8(result.val)
    /\ prev' = ThisCall
    /\ NoCoil

\* Coil::from(b)
CallCoilFrom ==
    \E b \in BOOLEAN :
        /\ op' = "Coil::from"
        /\ arg' = b
        /\ result' = Ok(Coil_from_bool(b))
        /\ prev' = NoCall
        /\ orig' = [by |-> "Coil::from", coil |-> Coil_from_bool(b)]
        /\ flips' = 0

\* s.parse::<Coil>()
CallCoilFromStr ==
    \E s \in Strings :
        /\ op' = "Coil::from_str"
        /\ arg' = s
        /\ result' = Coil_from_str(s)
        /\ prev' = NoCall
        /\ orig' = IF Coil_from_str(s).tag = "Ok"
                   THEN [by |-> "Coil::from_str", coil |-> Coil_from_str(s).val]
                   ELSE NoOrigin
        /\ flips' = 0

\* !coil for the Coil the caller holds.
CallCoilNot ==
    /\ HasCoil
    /\ op' = "Coil::not"
    /\ arg' = HeldCoil
    /\ result' = Ok(Coil_not(HeldCoil))
    /\ prev' = ThisCall
    /\ flips' = 1 - flips
    /\ UNCHANGED orig

\* coil.code() for the Coil the caller holds.
CallCoilCode ==
    /\ HasCoil
    /\ op' = "Coil::code"
    /\ arg' = HeldCoil
    /\ result' = Ok(Coil_code(HeldCoil))
    /\ prev' = ThisCall
    /\ UNCHANGED <<orig, flips>>

\* Error::from(c) for an ExceptionCode.
CallErrorFromExceptionCode ==
    \E c \in ExceptionCodes :
        /\ op' = "Error::from(ExceptionCode)"
        /\ arg' = c
        /\ result' = Ok(Error_from_ExceptionCode(c))
        /\ prev' = NoCall
        /\ NoCoil

\* Error::from(e) for an io::Error.
CallErrorFromIo ==
    \E e \in IoErrors :
        /\ op' = "Error::from(io::Error)"
        /\ arg' = e
        /\ result' = Ok(Error_from_io_Error(e))
        /\ prev' = NoCall
        /\ NoCoil

\* An Error built from its variant, as the decoder does.
BuildError ==
    \E e \in Errors :
        /\ op' = "Error::variant"
        /\ arg' = e.kind
        /\ result' = Ok(e)
        /\ prev' = NoCall
        /\ NoCoil

\* format!("{}", err) for the Error the caller holds.
CallErrorFmt ==
    /\ HasError
    /\ op' = "Error::fmt"
    /\ arg' = HeldError
    /\ result' = Ok(Error_fmt(HeldError))
    /\ prev' = ThisCall
    /\ NoCoil

\* err.description() for the Error the caller holds.
CallErrorDescription ==
    /\ HasError
    /\ op' = "Error::description"
    /\ arg' = HeldError
    /\ result' = Ok(Error_description(HeldError))
    /\ prev' = ThisCall
    /\ NoCoil

\* err.cause() for the Error the caller holds.
CallErrorCause ==
    /\ HasError
    /\ op' = "Error::cause"
    /\ arg' = HeldError
    /\ result' = Error_cause(HeldError)
    /\ prev' = ThisCall
    /\ NoCoil

\* add(left, right)
CallAdd ==
    \E left \in Usizes, right \in Usizes :
        /\ op' = "add"
        /\ arg' = <<left, right>>
        /\ result' \in add(left, right)
        /\ prev' = NoCall
        /\ NoCoil

Next ==
    \/ CallFunctionCode
    \/ CallFromU8
    \/ CallToCode
    \/ CallFromU8OfCode
    \/ CallCoilFrom
    \/ CallCoilFromStr
    \/ CallCoilNot
    \/ CallCoilCode
    \/ CallErrorFromExceptionCode
    \/ CallErrorFromIo
    \/ BuildError
    \/ CallErrorFmt
    \/ CallErrorDescription
    \/ CallErrorCause
    \/ CallAdd

Spec == Init /\ [][Next]_vars

(***************************************************************************)
(* Properties.                                                             *)
(***************************************************************************)
\* The numeric value of each ExceptionCode.
ExceptionCodeValues ==
    [IllegalFunction |-> 1, IllegalDataAddress |-> 2, IllegalDataValue |-> 3,
     SlaveOrServerFailure |-> 4, Acknowledge |-> 5, SlaveOrServerBusy |-> 6,
     NegativeAcknowledge |-> 7, MemoryParity |-> 8, NotDefined |-> 9,
     GatewayPath |-> 10, GatewayTarget |-> 11]

\* C1: from_u8 succeeds exactly for the bytes 0x01..0x0b and gives None for
\* every other byte, never a guessed variant; c as u8 is the value of the
\* table for each of the 11 codes, and from_u8(c as u8) is Some(c).
C1_ExceptionCodeRoundTrip ==
    /\ op = "ExceptionCode::from_u8" =>
          /\ (arg \in 1..11) <=> (result.tag = "Some")
          /\ (arg \notin 1..11) <=> (result = None)
          /\ result.tag = "Some" =>
                /\ result.val \in DOMAIN ExceptionCodeValues
                /\ ExceptionCodeValues[result.val] = arg
    /\ op = "ExceptionCode as u8" =>
          /\ arg \in DOMAIN ExceptionCodeValues
          /\ result = Ok(ExceptionCodeValues[arg])
    /\ (op = "ExceptionCode::from_u8" /\ prev.op = "ExceptionCode as u8") =>
          result = Some(prev.arg)

C1_Witness ==
    /\ op = "ExceptionCode::from_u8"
    /\ prev.op = "ExceptionCode as u8"
    /\ prev.arg = "GatewayTarget"
    /\ arg = 11
    /\ result = Some("GatewayTarget")

\* The wire code of each Function variant.
FunctionCodes ==
    [ReadCoils |-> 1, ReadDiscreteInputs |-> 2, ReadHoldingRegisters |-> 3,
     ReadInputRegisters |-> 4, WriteSingleCoil |-> 5,
     WriteSingleRegister |-> 6, WriteMultipleCoils |-> 15,
     WriteMultipleRegisters |-> 16, WriteReadMultipleRegisters |-> 23]

\* C2: Function::code returns, for every Function value, the table's code of
\* its variant whatever its fields hold, and no Function of another variant
\* has the same code.
C2_FunctionCodeTable ==
    op = "Function::code" =>
        /\ arg.variant \in DOMAIN FunctionCodes
        /\ result = Ok(FunctionCodes[arg.variant])
        /\ \A g \in Functions :
              (g.variant = arg.variant) <=> (Function_code(g) = result.val)

C2_Witness ==
    /\ op = "Function::code"
    /\ arg.variant = "WriteReadMultipleRegisters"
    /\ arg.read_quantity = MaxWord
    /\ Len(arg.payload) = MaxPayload
    /\ result = Ok(23)

\* C3: for a Coil made by Coil::from(b), one negation never gives the value
\* negated, two negations give it back, from(true) differs from from(false)
\* and is its negation, and after n negations the value is the original
\* exactly when n is even.
C3_CoilBooleanness ==
    /\ op = "Coil::not" => result.val # arg
    /\ (op = "Coil::not" /\ prev.op = "Coil::not") => result.val = prev.arg
    /\ op = "Coil::from" =>
          /\ result.val \in Coils
          /\ result.val # Coil_from_bool(~arg)
    /\ (op = "Coil::not" /\ prev.op = "Coil::from") =>
          result.val = Coil_from_bool(~prev.arg)
    /\ (HasCoil /\ orig.by = "Coil::from") =>
          ((HeldCoil = orig.coil) <=> (flips = 0))

C3_Witness ==
    /\ op = "Coil::not"
    /\ prev.op = "Coil::not"
    /\ orig = [by |-> "Coil::from", coil |-> "On"]
    /\ flips = 0
    /\ result = Ok("On")

\* C4: Coil::from_str gives Ok(On) exactly for "On", Ok(Off) exactly for
\* "Off", and Err(ParseCoilError) for every other string: no change of case,
\* no trimming, no synonym, no other Error.
C4_ParseCoilExact ==
    op = "Coil::from_str" =>
        /\ (arg = "On") <=> (result = Ok("On"))
        /\ (arg = "Off") <=> (result = Ok("Off"))
        /\ (arg \notin {"On", "Off"}) <=>
              (result = Err([kind |-> "ParseCoilError"]))
        /\ arg \in {"on", "ON", "off", "", " On", "On ", " "} =>
              result = Err([kind |-> "ParseCoilError"])

C4_Witness ==
    /\ op = "Coil::from_str"
    /\ arg = "ON"
    /\ result = Err([kind |-> "ParseCoilError"])

\* C5: cause gives the underlying I/O failure for an Error of kind Io, the
\* very one Error::from was given, and nothing for an Error of any other kind.
C5_OnlyIoHasCause ==
    /\ op = "Error::cause" =>
          /\ arg.kind = "Io" => result = Some(arg.err)
          /\ arg.kind # "Io" => result = None
    /\ (op = "Error::cause" /\ prev.op = "Error::from(io::Error)") =>
          result = Some(prev.arg)

C5_Witness ==
    /\ op = "Error::cause"
    /\ prev.op = "Error::from(io::Error)"
    /\ prev.arg.id = MaxIoId
    /\ result = Some(prev.arg)

\* The text t occurs in the text s.
Contains(s, t) ==
    \E i \in 1..(Len(s) + 1) :
        /\ i + Len(t) - 1 <= Len(s)
        /\ SubSeq(s, i, i + Len(t) - 1) = t

\* C6: Error::from(c) is Exception(c) for each ExceptionCode c, so that no
\* other code gives the same Error; its rendered message contains the name
\* of c, and its cause is none.
C6_ErrorFromExceptionCode ==
    /\ op = "Error::from(ExceptionCode)" =>
          /\ result = Ok([kind |-> "Exception", code |-> arg])
          /\ \A c \in ExceptionCodes :
                (Error_from_ExceptionCode(c) = result.val) <=> (c = arg)
    /\ (op = "Error::fmt" /\ prev.op = "Error::from(ExceptionCode)") =>
          /\ arg = prev.result.val
          /\ Contains(result.val, prev.arg)
    /\ (op = "Error::cause" /\ prev.op = "Error::from(ExceptionCode)") =>
          /\ arg = prev.result.val
          /\ result = None

C6_Witness ==
    /\ op = "Error::fmt"
    /\ prev.op = "Error::from(ExceptionCode)"
    /\ prev.arg = "IllegalDataAddress"
    /\ result = Ok("Modbus exception: IllegalDataAddress")

\* C7: the code of a Coil reached by from(bool), parse and negation is 0xff00
\* exactly when it is On and 0x0000 exactly when it is Off; the code of
\* Coil::from(b) is 0xff00 exactly when b is true, and the code of a negated
\* Coil is the other code.
C7_CoilWireCode ==
    /\ op = "Coil::code" =>
          /\ result.tag = "Ok"
          /\ result.val \in {65280, 0}
          /\ (result.val = 65280) <=> (arg = "On")
          /\ (result.val = 0) <=> (arg = "Off")
    /\ (op = "Coil::code" /\ prev.op = "Coil::from") =>
          ((result.val = 65280) <=> (prev.arg = TRUE))
    /\ (op = "Coil::code" /\ prev.op = "Coil::from_str") =>
          ((result.val = 65280) <=> (prev.arg = "On"))
    /\ (op = "Coil::code" /\ prev.op = "Coil::not") =>
          ((result.val = 65280) <=> (prev.arg = "Off"))

C7_Witness ==
    /\ op = "Coil::code"
    /\ prev.op = "Coil::not"
    /\ prev.arg = "Off"
    /\ result = Ok(65280)

\* The operations of the core: every operation of the model but add.
CoreOps ==
    {"Function::code", "ExceptionCode::from_u8", "ExceptionCode as u8",
     "Coil::from", "Coil::from_str", "Coil::not", "Coil::code",
     "Error::from(ExceptionCode)", "Error::from(io::Error)",
     "Error::variant", "Error::fmt", "Error::description", "Error::cause"}

\* C8: every operation of the core returns a value or fails with an Error of
\* exactly one of the seven kinds, whatever its input: none panics, and
\* nothing but an Error is returned as a failure.
C8_NoPanicOneErrorKind ==
    op \in CoreOps =>
        /\ result.tag \in {"Ok", "Some", "None", "Err"}
        /\ result # Panic
        /\ result.tag = "Err" =>
              /\ result.val \in Errors
              /\ Cardinality({k \in ErrorKinds : result.val.kind = k}) = 1

C8_Witness ==
    /\ op = "Coil::from_str"
    /\ arg = ""
    /\ result = Err([kind |-> "ParseCoilError"])

\* What Display adds to the description of an Error that carries a value.
InnerRendering(e) ==
    CASE e.kind = "Exception" -> e.code
      [] e.kind = "Io" -> e.err.msg
      [] e.kind = "InvalidData" ->
             IF e.reason.name = "Custom"
             THEN "Custom(" \o str_debug(e.reason.text) \o ")"
             ELSE e.reason.name

\* C9 as stated: description() returns the same text as the Display
\* rendering, for every Error.
C9_DescriptionEqualsDisplay ==
    (op = "Error::description" /\ prev.op = "Error::fmt") =>
        result = prev.result

\* C9 as amended: description() returns the Display rendering for
\* InvalidResponse, InvalidFunction, ParseCoilError and ParseInfoError; for
\* Exception, Io and InvalidData the Display rendering is the description
\* followed by ": " and the rendering of the value the Error carries.
C9_DescriptionIsDisplayPrefix ==
    (op = "Error::description" /\ prev.op = "Error::fmt") =>
        /\ arg = prev.arg
        /\ arg.kind \in UnitKinds => result = prev.result
        /\ arg.kind \notin UnitKinds =>
              /\ prev.result.val = result.val \o ": " \o InnerRendering(arg)
              /\ result # prev.result
        /\ result.val \in {"Modbus exception", "I/O error", "Invalid response",
                           "Invalid data", "Invalid modbus function",
                           "Parse coil could not be parsed",
                           "Failed parsing device info as utf8"}

C9_Witness ==
    /\ op = "Error::description"
    /\ prev.op = "Error::fmt"
    /\ arg = [kind |-> "InvalidData", reason |-> [name |-> "BytecountNotEven"]]
    /\ prev.result = Ok("Invalid data: BytecountNotEven")
    /\ result = Ok("Invalid data")

\* C10 as stated: add(left, right) returns left + right for every pair of
\* usize inputs, without panicking or wrapping.
C10_AddIsSum ==
    op = "add" => result = Ok(arg[1] + arg[2])

\* C10 as amended: add(left, right) returns left + right when the sum fits in
\* a usize; when it does not, add panics (overflow checks on) or returns the
\* sum less 2^WordBits (overflow checks off).
C10_AddIsSumUnlessOverflow ==
    op = "add" =>
        /\ arg[1] + arg[2] < 2 ^ WordBits => result = Ok(arg[1] + arg[2])
        /\ arg[1] + arg[2] >= 2 ^ WordBits =>
              \/ result = Panic
              \/ result = Ok(arg[1] + arg[2] - 2 ^ WordBits)
        /\ result # Panic => result.val \in 0..(2 ^ WordBits - 1)

C10_Witness ==
    /\ op = "add"
    /\ arg = <<2 ^ WordBits - 1, 1>>
    /\ result = Ok(0)

====
